---- MODULE Spec2Model ----
(***************************************************************************)
(* KvStore (src/src/engine.rs): a log-structured key-value store.  The    *)
(* file store.log is modelled as a flat sequence of bytes (one-character  *)
(* strings), the index as a map from key to LogPointer {offset, len} in   *)
(* bytes, and the writer as an O_APPEND file descriptor with its own file *)
(* offset.                                                                 *)
(***************************************************************************)
EXTENDS Integers, Sequences, FiniteSets, TLC

VARIABLES
    log,          \* bytes of the file at dir/store.log
    orphan,       \* bytes of the unlinked file the writer still holds, if any
    wAttached,    \* TRUE iff the writer's descriptor is the file at store.log
    wpos,         \* file offset of the writer's descriptor
    wbuf,         \* bytes held in the writer's BufWriter, not yet in its file
    index,        \* KvStore.index : key -> LogPointer
    uncompacted,  \* KvStore.uncompacted
    threshold,    \* KvStore.threshold
    opened,       \* TRUE iff a KvStore value exists for the directory
    tmpExists,    \* TRUE iff dir/store.log.compact exists
    truth,        \* history: key -> value of its last logged Set, removed keys absent
    compacted,    \* history: a compaction has replaced the log in this session
    lastOp        \* the last call made and what it returned

vars == <<log, orphan, wAttached, wpos, wbuf, index, uncompacted, threshold,
          opened, tmpExists, truth, compacted, lastOp>>

-----------------------------------------------------------------------------
(* Bounds *)

\* appends are allowed while the written file holds fewer records than this
MaxRecords == 3
\* lines of a log that was on disk before the first open (SpecForeign)
MaxForeignLines == 2

\* threshold: 1024 * 1024
DefaultThreshold == 1048576

-----------------------------------------------------------------------------
(* Bytes, keys, values *)

Q == "\""
NL == "\n"
\* a byte that is not valid UTF-8
BadByte == "0xFF"
WhiteSpace == {" ", "\n", "\t", "\r"}

KeyA == <<"a">>
KeyB == <<"b">>
EmptyKey == <<>>
Keys == {KeyA, KeyB}
AllKeys == Keys \cup {EmptyKey}
Val1 == <<"1">>
Val22 == <<"2", "2">>
Values == {Val1, Val22}

SetCmd(k, v) == [t |-> "Set", key |-> k, val |-> v]
RemoveCmd(k) == [t |-> "Remove", key |-> k]
Commands == {SetCmd(k, v) : k \in AllKeys, v \in Values}
              \cup {RemoveCmd(k) : k \in AllKeys}
DecodeError == [t |-> "Err"]

-----------------------------------------------------------------------------
(* Record codec: serde_json on enum Command *)

\* serde_json::to_vec(cmd): externally tagged enum with struct variants
to_vec(cmd) ==
    IF cmd.t = "Set"
    THEN <<"{", Q, "S", "e", "t", Q, ":", "{", Q, "k", "e", "y", Q, ":", Q>>
           \o cmd.key
           \o <<Q, ",", Q, "v", "a", "l", Q, ":", Q>>
           \o cmd.val
           \o <<Q, "}", "}">>
    ELSE <<"{", Q, "R", "e", "m", "o", "v", "e", Q, ":", "{", Q, "k", "e", "y", Q, ":", Q>>
           \o cmd.key
           \o <<Q, "}", "}">>

\* str::trim: drop leading and trailing white space
RECURSIVE TrimEnd(_)
TrimEnd(s) ==
    IF Len(s) > 0 /\ s[Len(s)] \in WhiteSpace
    THEN TrimEnd(SubSeq(s, 1, Len(s) - 1))
    ELSE s

RECURSIVE TrimStart(_)
TrimStart(s) ==
    IF Len(s) > 0 /\ s[1] \in WhiteSpace THEN TrimStart(Tail(s)) ELSE s

trim(s) == TrimStart(TrimEnd(s))

\* serde_json::from_str::<Command>(text): the command whose encoding is text
from_str(text) ==
    IF \E c \in Commands : to_vec(c) = text
    THEN CHOOSE c \in Commands : to_vec(c) = text
    ELSE DecodeError

-----------------------------------------------------------------------------
(* Files *)

\* BufRead::read_line after seek(SeekFrom::Start(off)): the bytes from off up
\* to and including the next newline, or to the end of the file; an error
\* when they are not valid UTF-8.
read_line(file, off) ==
    LET n == Len(file)
        ends == {i \in (off + 1)..n : file[i] = NL}
        last == IF ends = {} THEN n
                ELSE CHOOSE i \in ends : \A j \in ends : i <= j
        line == IF off >= n THEN <<>> ELSE SubSeq(file, off + 1, last)
    IN  [ok |-> \A i \in 1..Len(line) : line[i] # BadByte, line |-> line]

NumRecords(file) == Cardinality({i \in 1..Len(file) : file[i] = NL})

IndexInsert(idx, k, ptr) ==
    [x \in (DOMAIN idx) \cup {k} |-> IF x = k THEN ptr ELSE idx[x]]

IndexRemove(idx, k) == [x \in (DOMAIN idx) \ {k} |-> idx[x]]

LogPointer(off, len) == [offset |-> off, len |-> len]

EmptyIndex == [x \in {} |-> LogPointer(0, 0)]

Max(a, b) == IF a >= b THEN a ELSE b

-----------------------------------------------------------------------------
(* The store: the fields of KvStore and the files they refer to *)

St == [log |-> log, orphan |-> orphan, wAttached |-> wAttached, wpos |-> wpos,
       wbuf |-> wbuf, index |-> index, uncompacted |-> uncompacted, tmpExists |-> tmpExists]

\* KvStore::rebuild_index: the loop over the lines of the log
RECURSIVE Replay(_, _, _, _, _)
Replay(file, pos, idx, total_bytes, live_bytes) ==
    LET r == read_line(file, pos)
        len == Len(r.line)
        cmd == from_str(trim(r.line))
        old == IF cmd.t \in {"Set", "Remove"} /\ cmd.key \in DOMAIN idx
               THEN idx[cmd.key].len ELSE 0
    IN  IF ~r.ok THEN [ok |-> FALSE]
        ELSE IF len = 0
        THEN [ok |-> TRUE, index |-> idx,
              uncompacted |-> Max(total_bytes - live_bytes, 0)]
        ELSE IF cmd.t = "Set"
        THEN Replay(file, pos + len, IndexInsert(idx, cmd.key, LogPointer(pos, len)),
                    total_bytes + len, live_bytes - old + len)
        ELSE IF cmd.t = "Remove"
        THEN Replay(file, pos + len, IndexRemove(idx, cmd.key),
                    total_bytes + len, live_bytes - old)
        ELSE Replay(file, pos + len, idx, total_bytes + len, live_bytes)

rebuild_index(file) == Replay(file, 0, EmptyIndex, 0, 0)

\* KvStore::validate_key
validate_key(key) == Len(key) # 0

\* append_command taking the position after the write instead of before it
append_command_pos_after(s, cmd) ==
    LET json == to_vec(cmd) \o <<NL>>
        len == Len(json)
        file == (IF s.wAttached THEN s.log ELSE s.orphan) \o s.wbuf
        written == file \o json
    IN  [offset |-> Len(written), len |-> len,
         s |-> [s EXCEPT !.log = IF s.wAttached THEN written ELSE @,
                         !.orphan = IF s.wAttached THEN @ ELSE written,
                         !.wpos = Len(written), !.wbuf = <<>>]]

\* BufWriter::stream_position: bytes left in the buffer by a failed flush are
\* written first (the descriptor is then at the end of the file), and the
\* result is the descriptor's position.
stream_position(s) ==
    LET file == IF s.wAttached THEN s.log ELSE s.orphan
        flushed == file \o s.wbuf
    IN  [file |-> flushed,
         pos |-> IF s.wbuf = <<>> THEN s.wpos ELSE Len(flushed)]

\* KvStore::append_command: the offset is the descriptor's position before the
\* write; the descriptor is in append mode, so the bytes go to the end of the
\* file whatever that position is, and the position is the end afterwards.
append_command(s, cmd) ==
    LET p == stream_position(s)
        offset == p.pos
        json == to_vec(cmd) \o <<NL>>
        len == Len(json)
        written == p.file \o json
    IN  [offset |-> offset, len |-> len,
         s |-> [s EXCEPT !.log = IF s.wAttached THEN written ELSE @,
                         !.orphan = IF s.wAttached THEN @ ELSE written,
                         !.wpos = Len(written), !.wbuf = <<>>]]

\* The calls of append_command that can fail: stream_position, and flush (a
\* record shorter than the buffer makes write_all a copy into the buffer)
AppendFaults == {"position", "flush"}

\* KvStore::append_command returning Err at `fault`; a failed flush has put
\* the first n bytes of the record in the file and keeps the rest buffered
append_command_err(s, cmd, fault, n) ==
    LET p == stream_position(s)
        json == to_vec(cmd) \o <<NL>>
        written == p.file \o SubSeq(json, 1, n)
    IN  IF fault = "position" THEN s
        ELSE [s EXCEPT !.log = IF s.wAttached THEN written ELSE @,
                       !.orphan = IF s.wAttached THEN @ ELSE written,
                       !.wpos = Len(written),
                       !.wbuf = SubSeq(json, n + 1, Len(json))]

\* get taking a tombstone or an undecodable line at the pointer for a miss
get_lenient(s, key) ==
    IF key \in DOMAIN s.index
    THEN LET ptr == s.index[key]
             r == read_line(s.log, ptr.offset)
             cmd == from_str(trim(r.line))
         IN  IF ~r.ok THEN [kind |-> "Io"]
             ELSE IF cmd.t = "Set" THEN [kind |-> "Some", val |-> cmd.val]
             ELSE [kind |-> "None"]
    ELSE [kind |-> "None"]

\* KvStore::get
get(s, key) ==
    IF key \in DOMAIN s.index
    THEN LET ptr == s.index[key]
             r == read_line(s.log, ptr.offset)
             cmd == from_str(trim(r.line))
         IN  IF ~r.ok THEN [kind |-> "Io"]
             ELSE IF cmd.t = "Set" THEN [kind |-> "Some", val |-> cmd.val]
             ELSE [kind |-> "LogCorruption", offset |-> ptr.offset]
    ELSE [kind |-> "None"]

\* get reading through the writer's descriptor: the read moves its position
get_call_shared_cursor(s, key) ==
    [s |-> IF key \in DOMAIN s.index
           THEN [s EXCEPT !.wpos = s.index[key].offset
                            + Len(read_line(s.log, s.index[key].offset).line)]
           ELSE s,
     res |-> get(s, key)]

\* a call of KvStore::get on &self: the result, and the store it leaves; the
\* read goes through a File opened for this call
get_call(s, key) == [s |-> s, res |-> get(s, key)]

\* The places of KvStore::compact where an I/O call can fail
CompactFaults == {"create", "openlog", "read", "write", "flush", "rename", "reopen"}
NoFault == {"none"}
AnyFault == NoFault \cup CompactFaults

\* The iteration orders of the HashMap: every sequence of all the keys
KeyOrders == {o \in [1..Cardinality(Keys) -> Keys] : \A i, j \in DOMAIN o : i # j => o[i] # o[j]}

\* KvStore::compact, the loop `for (key, ptr) in &self.index`, keys taken in `order`
RECURSIVE CopyLive(_, _, _, _, _, _, _)
CopyLive(file, idx, order, i, out, new_index, pos) ==
    IF i > Len(order) THEN [ok |-> TRUE, out |-> out, new_index |-> new_index]
    ELSE IF order[i] \notin DOMAIN idx
    THEN CopyLive(file, idx, order, i + 1, out, new_index, pos)
    ELSE LET r == read_line(file, idx[order[i]].offset)
             len == Len(r.line)
         IN  IF ~r.ok THEN [ok |-> FALSE]
             ELSE CopyLive(file, idx, order, i + 1, out \o r.line,
                           IndexInsert(new_index, order[i], LogPointer(pos, len)),
                           pos + len)

\* KvStore::compact; fault names the I/O call that fails, if any
compact(s, order, fault) ==
    LET copy == CopyLive(s.log, s.index, order, 1, <<>>, EmptyIndex, 0)
        loops == DOMAIN s.index # {}
    IN  IF fault = "create"
        THEN [s |-> s, res |-> "CompactionFailed", ran |-> fault]
        ELSE IF fault = "openlog" \/ (fault \in {"read", "write"} /\ loops)
                \/ ~copy.ok \/ fault = "flush"
        THEN [s |-> [s EXCEPT !.tmpExists = TRUE], res |-> "Io",
              ran |-> IF fault = "none" THEN "read" ELSE fault]
        ELSE IF fault = "rename"
        THEN [s |-> [s EXCEPT !.tmpExists = TRUE], res |-> "CompactionFailed",
              ran |-> fault]
        ELSE IF fault = "reopen"
        THEN [s |-> [s EXCEPT !.log = copy.out, !.tmpExists = FALSE,
                              !.orphan = IF s.wAttached THEN s.log ELSE @,
                              !.wAttached = FALSE],
              res |-> "Io", ran |-> fault]
        ELSE [s |-> [s EXCEPT !.log = copy.out, !.tmpExists = FALSE,
                              !.orphan = <<>>, !.wAttached = TRUE, !.wpos = 0,
                              !.wbuf = <<>>,
                              !.index = copy.new_index, !.uncompacted = 0],
              res |-> "Ok", ran |-> "ok"]

\* maybe_compact comparing with >= instead of >
maybe_compact_at_threshold(s, thr, faults) ==
    IF s.uncompacted >= thr
    THEN {compact(s, order, f) : order \in KeyOrders, f \in faults}
    ELSE {[s |-> s, res |-> "Ok", ran |-> "no"]}

\* KvStore::maybe_compact: every result it can return, over the iteration
\* orders of the index and the I/O calls that `faults` lets fail
maybe_compact(s, thr, faults) ==
    IF s.uncompacted > thr
    THEN {compact(s, order, f) : order \in KeyOrders, f \in faults}
    ELSE {[s |-> s, res |-> "Ok", ran |-> "no"]}

\* KvStore::set up to the call of maybe_compact
set_write(s, key, val) ==
    LET a == append_command(s, SetCmd(key, val))
        unc == IF key \in DOMAIN s.index
               THEN s.uncompacted + s.index[key].len ELSE s.uncompacted
    IN  [a.s EXCEPT !.uncompacted = unc,
                    !.index = IndexInsert(@, key, LogPointer(a.offset, a.len))]

\* set validating the key only after the record is written
set_validate_late(s, thr, key, val, faults) ==
    IF ~validate_key(key)
    THEN {[s |-> set_write(s, key, val), res |-> "InvalidKey", ran |-> "no",
           wrote |-> TRUE]}
    ELSE {[s |-> m.s, res |-> m.res, ran |-> m.ran, wrote |-> TRUE] :
            m \in maybe_compact(set_write(s, key, val), thr, faults)}

\* KvStore::set
set(s, thr, key, val, faults) ==
    IF ~validate_key(key)
    THEN {[s |-> s, res |-> "InvalidKey", ran |-> "no", wrote |-> FALSE]}
    ELSE {[s |-> m.s, res |-> m.res, ran |-> m.ran, wrote |-> TRUE] :
            m \in maybe_compact(set_write(s, key, val), thr, faults)}

\* remove leaving the key in the index
remove_write_keeps_key(s, key) ==
    LET a == append_command(s, RemoveCmd(key))
        unc == IF key \in DOMAIN s.index
               THEN s.uncompacted + s.index[key].len + a.len ELSE s.uncompacted
    IN  [a.s EXCEPT !.uncompacted = unc]

\* KvStore::remove up to the call of maybe_compact
remove_write(s, key) ==
    LET a == append_command(s, RemoveCmd(key))
        unc == IF key \in DOMAIN s.index
               THEN s.uncompacted + s.index[key].len + a.len ELSE s.uncompacted
    IN  [a.s EXCEPT !.uncompacted = unc, !.index = IndexRemove(@, key)]

\* KvStore::remove
remove(s, thr, key, faults) ==
    IF key \notin DOMAIN s.index
    THEN {[s |-> s, res |-> "KeyNotFound", ran |-> "no", wrote |-> FALSE]}
    ELSE {[s |-> m.s, res |-> m.res, ran |-> m.ran, wrote |-> TRUE] :
            m \in maybe_compact(remove_write(s, key), thr, faults)}

-----------------------------------------------------------------------------
(* Actions: one per public operation of KvStore *)

\* the thresholds a caller passes to set_compaction_threshold
ThresholdChoices == {0, Len(to_vec(SetCmd(KeyA, Val1))) + 1, DefaultThreshold}

Install(s) ==
    /\ log' = s.log
    /\ orphan' = s.orphan
    /\ wAttached' = s.wAttached
    /\ wpos' = s.wpos
    /\ wbuf' = s.wbuf
    /\ index' = s.index
    /\ uncompacted' = s.uncompacted
    /\ tmpExists' = s.tmpExists

WrittenFile == (IF wAttached THEN log ELSE orphan) \o wbuf

\* KvStore::open on the directory
Open ==
    /\ ~opened
    /\ LET r == rebuild_index(log)
       IN  IF r.ok
           THEN /\ opened' = TRUE
                /\ index' = r.index
                /\ uncompacted' = r.uncompacted
                /\ lastOp' = [op |-> "open", res |-> "Ok"]
           ELSE /\ opened' = FALSE
                /\ index' = EmptyIndex
                /\ uncompacted' = 0
                /\ lastOp' = [op |-> "open", res |-> "Io"]
    /\ threshold' = DefaultThreshold
    /\ wAttached' = TRUE
    /\ wpos' = 0
    /\ wbuf' = <<>>
    /\ orphan' = <<>>
    /\ compacted' = FALSE
    /\ UNCHANGED <<log, tmpExists, truth>>

\* drop of the KvStore value: the BufWriter writes what it still holds, the
\* descriptors are closed, the files stay
Close ==
    /\ opened
    /\ opened' = FALSE
    /\ index' = EmptyIndex
    /\ uncompacted' = 0
    /\ threshold' = DefaultThreshold
    /\ wAttached' = TRUE
    /\ wpos' = 0
    /\ wbuf' = <<>>
    /\ orphan' = <<>>
    /\ compacted' = FALSE
    /\ log' = IF wAttached THEN log \o wbuf ELSE log
    /\ lastOp' = [op |-> "close", res |-> "Ok"]
    /\ UNCHANGED <<tmpExists, truth>>

\* KvStore::set_compaction_threshold
SetCompactionThreshold ==
    /\ opened
    /\ \E t \in ThresholdChoices :
         /\ threshold' = t
         /\ lastOp' = [op |-> "set_compaction_threshold", res |-> "Ok"]
    /\ UNCHANGED <<log, orphan, wAttached, wpos, wbuf, index, uncompacted,
                   opened, tmpExists, truth, compacted>>

\* KvStore::set with a value of `values`, the I/O calls of a compaction failing
\* as `faults` allows
SetOp(faults, values) ==
    /\ opened
    /\ \E k \in AllKeys, v \in values :
         /\ validate_key(k) => NumRecords(WrittenFile) < MaxRecords
         /\ \E r \in set(St, threshold, k, v, faults) :
              /\ Install(r.s)
              /\ lastOp' = [op |-> "set", key |-> k, val |-> v,
                            res |-> r.res, ran |-> r.ran]
              /\ truth' = IF r.wrote THEN IndexInsert(truth, k, v) ELSE truth
              /\ compacted' = (compacted \/ r.ran \in {"ok", "reopen"})
    /\ UNCHANGED <<threshold, opened>>

\* KvStore::remove, with the I/O calls of a compaction failing as `faults` allows
RemoveOp(faults) ==
    /\ opened
    /\ \E k \in AllKeys :
         /\ k \in DOMAIN index => NumRecords(WrittenFile) < MaxRecords
         /\ \E r \in remove(St, threshold, k, faults) :
              /\ Install(r.s)
              /\ lastOp' = [op |-> "remove", key |-> k,
                            res |-> r.res, ran |-> r.ran]
              /\ truth' = IF r.wrote THEN IndexRemove(truth, k) ELSE truth
              /\ compacted' = (compacted \/ r.ran \in {"ok", "reopen"})
    /\ UNCHANGED <<threshold, opened>>

\* KvStore::get
GetOp ==
    /\ opened
    /\ \E k \in AllKeys :
         LET r == get_call(St, k)
         IN  /\ Install(r.s)
             /\ lastOp' = [op |-> "get", key |-> k, res |-> r.res]
    /\ UNCHANGED <<threshold, opened, truth, compacted>>

-----------------------------------------------------------------------------
(* Specifications *)

\* KvStore::open on an empty directory
Init ==
    /\ log = <<>>
    /\ orphan = <<>>
    /\ wAttached = TRUE
    /\ wpos = 0
    /\ wbuf = <<>>
    /\ index = EmptyIndex
    /\ uncompacted = 0
    /\ threshold = DefaultThreshold
    /\ opened = TRUE
    /\ tmpExists = FALSE
    /\ truth = EmptyIndex
    /\ compacted = FALSE
    /\ lastOp = [op |-> "open", res |-> "Ok"]

\* every call returns without an I/O error
Next ==
    \/ SetOp(NoFault, Values)
    \/ RemoveOp(NoFault)
    \/ GetOp
    \/ SetCompactionThreshold
    \/ Close
    \/ Open

Spec == Init /\ [][Next]_vars

\* the I/O calls of a compaction may fail; one value is written and the store
\* stays open
NextFault ==
    \/ SetOp(AnyFault, {Val1})
    \/ RemoveOp(AnyFault)
    \/ SetCompactionThreshold

SpecFault == Init /\ [][NextFault]_vars

\* the lines a log not written by this engine may hold
ForeignLines ==
    { to_vec(SetCmd(KeyA, Val1)) \o <<NL>>,
      to_vec(RemoveCmd(KeyA)) \o <<NL>>,
      <<"x", NL>>,
      <<BadByte, NL>> }

RECURSIVE ForeignLogs(_)
ForeignLogs(n) ==
    IF n = 0 THEN {<<>>}
    ELSE LET shorter == ForeignLogs(n - 1)
         IN  shorter \cup {f \o l : f \in shorter, l \in ForeignLines}

\* the directory holds a log of any content and no store is open yet
InitForeign ==
    /\ log \in ForeignLogs(MaxForeignLines)
    /\ orphan = <<>>
    /\ wAttached = TRUE
    /\ wpos = 0
    /\ wbuf = <<>>
    /\ index = EmptyIndex
    /\ uncompacted = 0
    /\ threshold = DefaultThreshold
    /\ opened = FALSE
    /\ tmpExists = FALSE
    /\ truth = EmptyIndex
    /\ compacted = FALSE
    /\ lastOp = [op |-> "none", res |-> "Ok"]

SpecForeign == InitForeign /\ [][Next]_vars

\* The steps of KvStore::compact after which the process may stop: the
\* temporary file created, some records copied, the copy flushed, the
\* temporary file renamed onto the log
CrashSteps == {"created", "copying", "flushed", "renamed"}

\* the files a process that stops at `step` of KvStore::compact leaves: the
\* rename replaces store.log in one step, every earlier step writes to
\* store.log.compact only
compact_crash(s, order, step) ==
    IF step = "renamed"
    THEN [log |-> CopyLive(s.log, s.index, order, 1, <<>>, EmptyIndex, 0).out,
          tmpExists |-> FALSE]
    ELSE [log |-> s.log, tmpExists |-> TRUE]

\* a set or remove whose compaction the process does not survive
CrashOp ==
    /\ opened
    /\ NumRecords(WrittenFile) < MaxRecords
    /\ \E k \in Keys, v \in Values, op \in {"set", "remove"},
          order \in KeyOrders, step \in CrashSteps :
         LET w == IF op = "set" THEN set_write(St, k, v) ELSE remove_write(St, k)
             c == compact_crash(w, order, step)
         IN  /\ op = "remove" => k \in DOMAIN index
             /\ w.uncompacted > threshold
             /\ log' = c.log
             /\ tmpExists' = c.tmpExists
             /\ truth' = IF op = "set" THEN IndexInsert(truth, k, v)
                         ELSE IndexRemove(truth, k)
             /\ lastOp' = [op |-> "crash", step |-> step,
                           view |-> [x \in Keys |-> get(w, x)],
                           old |-> w.log,
                           new |-> compact(w, order, "none").s.log]
    /\ opened' = FALSE
    /\ index' = EmptyIndex
    /\ uncompacted' = 0
    /\ threshold' = DefaultThreshold
    /\ wAttached' = TRUE
    /\ wpos' = 0
    /\ wbuf' = <<>>
    /\ orphan' = <<>>
    /\ compacted' = FALSE

\* the process may stop during a compaction and the store be opened again
NextCrash ==
    \/ Next
    \/ CrashOp

SpecCrash == Init /\ [][NextCrash]_vars

\* the number of bytes of a record that a failing flush has written
PartialWrites == {0, 1}

\* set updating the index before the record is appended
set_index_first_err(s, key, val, fault, n) ==
    IF ~validate_key(key) THEN [s |-> s, res |-> "InvalidKey"]
    ELSE [s |-> [append_command_err(s, SetCmd(key, val), fault, n)
                   EXCEPT !.index = IndexInsert(@, key, LogPointer(s.wpos, 0))],
          res |-> "Io"]

\* KvStore::set returning the error of append_command
set_append_err(s, key, val, fault, n) ==
    IF ~validate_key(key) THEN [s |-> s, res |-> "InvalidKey"]
    ELSE [s |-> append_command_err(s, SetCmd(key, val), fault, n), res |-> "Io"]

\* KvStore::remove returning the error of append_command
remove_append_err(s, key, fault, n) ==
    IF key \notin DOMAIN s.index THEN [s |-> s, res |-> "KeyNotFound"]
    ELSE [s |-> append_command_err(s, RemoveCmd(key), fault, n), res |-> "Io"]

\* KvStore::set when an I/O call of append_command fails
SetAppendErr ==
    /\ opened
    /\ NumRecords(WrittenFile) < MaxRecords
    /\ \E k \in Keys, fault \in AppendFaults, n \in PartialWrites :
         LET r == set_append_err(St, k, Val1, fault, n)
         IN  /\ Install(r.s)
             /\ lastOp' = [op |-> "set", key |-> k, val |-> Val1,
                           res |-> r.res, ran |-> "append"]
    /\ UNCHANGED <<threshold, opened, truth, compacted>>

\* KvStore::remove when an I/O call of append_command fails
RemoveAppendErr ==
    /\ opened
    /\ NumRecords(WrittenFile) < MaxRecords
    /\ \E k \in DOMAIN index, fault \in AppendFaults, n \in PartialWrites :
         LET r == remove_append_err(St, k, fault, n)
         IN  /\ Install(r.s)
             /\ lastOp' = [op |-> "remove", key |-> k,
                           res |-> r.res, ran |-> "append"]
    /\ UNCHANGED <<threshold, opened, truth, compacted>>

\* the I/O calls of append_command may fail; one value is written
NextAppend ==
    \/ SetOp(NoFault, {Val1})
    \/ RemoveOp(NoFault)
    \/ SetAppendErr
    \/ RemoveAppendErr
    \/ SetCompactionThreshold
    \/ Close
    \/ Open

SpecAppend == Init /\ [][NextAppend]_vars

-----------------------------------------------------------------------------
(* What the claims speak of *)

Some(v) == [kind |-> "Some", val |-> v]
None == [kind |-> "None"]
LogCorruption(off) == [kind |-> "LogCorruption", offset |-> off]

\* the value a reader expects for key k after the writes logged so far
Expected(k) == IF k \in DOMAIN truth THEN Some(truth[k]) ELSE None

\* the store as the last write left it when it called maybe_compact
BeforeCompact ==
    IF lastOp'.op = "set"
    THEN set_write(St, lastOp'.key, lastOp'.val)
    ELSE remove_write(St, lastOp'.key)

WriteReturned == lastOp'.op \in {"set", "remove"}

\* C1: in every reachable state of an open store, a successful set(k, v)
\* followed at once by get(k) returns Some(v).
C1_ReadYourWrite ==
    (opened /\ lastOp.op = "set" /\ lastOp.res = "Ok")
        => get(St, lastOp.key) = Some(lastOp.val)

\* C2: after close and open on the same directory, get(k) is Some(v) for the
\* last set(k, v) not followed by a remove(k), and None for every other key.
C2_DurableAcrossReopen ==
    (opened /\ lastOp.op = "open" /\ lastOp.res = "Ok")
        => \A k \in Keys : get(St, k) = Expected(k)

\* C3: once a compaction has run in a session, get(k) returns the last value
\* written for every key of the index and None for every removed key, also
\* after further set and remove calls.
C3_CompactionPreservesMapping ==
    (opened /\ compacted) => \A k \in Keys : get(St, k) = Expected(k)

\* C4: remove(k) of a key in the index succeeds, a following get(k) returns
\* None, and a second remove(k) returns KeyNotFound.
C4_RemoveEffective ==
    [][(lastOp'.op = "remove" /\ lastOp'.key \in DOMAIN index)
         => /\ lastOp'.res = "Ok"
            /\ get(St', lastOp'.key) = None
            /\ \A r \in remove(St', threshold', lastOp'.key, NoFault) :
                 r.res = "KeyNotFound" /\ r.s = St']_vars

C4_Witness ==
    /\ opened
    /\ lastOp.op = "remove"
    /\ lastOp.res = "Ok"
    /\ lastOp.ran = "ok"
    /\ index # EmptyIndex

\* C5: set with an empty key returns InvalidKey and remove of a key absent from
\* the index returns KeyNotFound; neither appends a record, changes the index
\* or the uncompacted counter, or attempts a compaction.
C5_RejectedWritesChangeNothing ==
    [][/\ (lastOp'.op = "set" /\ lastOp'.key = EmptyKey)
            => lastOp'.res = "InvalidKey"
       /\ (lastOp'.op = "remove" /\ lastOp'.key \notin DOMAIN index)
            => lastOp'.res = "KeyNotFound"
       /\ (WriteReturned /\ lastOp'.res \in {"InvalidKey", "KeyNotFound"})
            => /\ lastOp'.ran = "no"
               /\ UNCHANGED <<log, orphan, wAttached, wpos, wbuf, index,
                              uncompacted, threshold, tmpExists>>]_vars

C5_Witness ==
    /\ opened
    /\ lastOp.op = "remove"
    /\ lastOp.res = "KeyNotFound"
    /\ index # EmptyIndex
    /\ uncompacted > 0

\* C6: an I/O error while a compaction reads a live record or writes or
\* flushes the temporary file leaves store.log, the index and the uncompacted
\* counter as they were when the compaction started, is returned as
\* CompactionFailed, and later get calls return the values of before.
C6_FailedCopyHarmless ==
    [][(WriteReturned /\ lastOp'.ran \in {"read", "write", "flush"})
         => /\ lastOp'.res = "CompactionFailed"
            /\ log' = BeforeCompact.log
            /\ index' = BeforeCompact.index
            /\ uncompacted' = BeforeCompact.uncompacted
            /\ \A k \in Keys : get(St', k) = get(BeforeCompact, k)]_vars

\* C7: a compaction attempt ends either with the log replaced, the writer on
\* the new file, the new pointers in the index and uncompacted = 0, or with
\* store.log, the writer, the index and uncompacted as before the attempt.
C7_CompactionAllOrNothing ==
    [][(WriteReturned /\ lastOp'.ran # "no")
         => \/ /\ lastOp'.ran = "ok"
               /\ wAttached'
               /\ wpos' = 0
               /\ uncompacted' = 0
               /\ \A k \in DOMAIN index' :
                    index'[k].offset + index'[k].len <= Len(log')
            \/ /\ log' = BeforeCompact.log
               /\ orphan' = BeforeCompact.orphan
               /\ wAttached' = BeforeCompact.wAttached
               /\ wpos' = BeforeCompact.wpos
               /\ index' = BeforeCompact.index
               /\ uncompacted' = BeforeCompact.uncompacted]_vars

\* C8: a successful set or remove runs a compaction if and only if the
\* uncompacted counter after the write's accounting is greater than the
\* threshold, the compaction is complete on return, and on return
\* uncompacted <= threshold.
C8_CompactionTrigger ==
    [][(WriteReturned /\ lastOp'.res = "Ok" /\ lastOp'.ran \in {"no", "ok"})
         => /\ (lastOp'.ran = "ok") <=> (BeforeCompact.uncompacted > threshold)
            /\ lastOp'.ran = "ok" => (uncompacted' = 0 /\ wAttached' /\ ~tmpExists')
            /\ lastOp'.ran = "no" => St' = BeforeCompact
            /\ uncompacted' <= threshold']_vars

C8_Witness ==
    /\ opened
    /\ lastOp.op = "set"
    /\ lastOp.res = "Ok"
    /\ lastOp.ran = "no"
    /\ uncompacted = threshold
    /\ uncompacted > 0

\* the command the bytes at the pointer of key k decode to
DecodedAt(k) == from_str(trim(read_line(log, index[k].offset).line))

\* C9: when the bytes at the offset of an indexed LogPointer decode to a
\* Remove record or do not decode to a record, get returns LogCorruption with
\* that offset.
C9_DefensiveCorruptionCheck ==
    (/\ opened
     /\ lastOp.op = "get"
     /\ lastOp.key \in DOMAIN index
     /\ read_line(log, index[lastOp.key].offset).ok
     /\ DecodedAt(lastOp.key).t \in {"Remove", "Err"})
        => lastOp.res = LogCorruption(index[lastOp.key].offset)

C9_Witness ==
    /\ opened
    /\ lastOp.op = "get"
    /\ lastOp.key \in DOMAIN index
    /\ DecodedAt(lastOp.key).t = "Remove"
    /\ lastOp.res.kind = "LogCorruption"

\* C10: on a log that only this engine has written and with no I/O error, no
\* index entry addresses a Remove record or bytes that do not decode, and get
\* never returns LogCorruption.
C10_NoCorruptionInNormalOperation ==
    opened =>
        /\ \A k \in DOMAIN index :
             /\ DecodedAt(k).t = "Set"
             /\ get(St, k).kind = "Some"
        /\ lastOp.op = "get" => lastOp.res.kind \in {"Some", "None"}

C10_Witness ==
    /\ opened
    /\ compacted
    /\ DOMAIN index = Keys
    /\ lastOp.op = "get"
    /\ lastOp.res.kind = "Some"
    /\ lastOp.res # Expected(lastOp.key)


\* ---- C11 ----
\* C11: a get call, whether it hits, misses or fails, leaves the index, the
\* uncompacted counter, the threshold, the log file, the writer's file, its
\* position and its buffer as they were, so that every write, read and reopen
\* after it finds the store that it would have found without the get.
C11_GetReadOnly ==
    [][lastOp'.op = "get" =>
          /\ St' = St
          /\ threshold' = threshold
          /\ opened' = opened
          /\ \A k \in AllKeys : get(St', k) = get(St, k)
          /\ \A c \in Commands :
                append_command(St', c).offset = append_command(St, c).offset]_vars

\* a get that hit, one that missed and one that failed, on a store with stale
\* bytes in its log
C11_Witness ==
    /\ opened
    /\ lastOp.op = "get"
    /\ lastOp.res.kind \in {"Some", "LogCorruption"}
    /\ Len(log) > 0
    /\ uncompacted > 0

\* ---- C12 ----
\* the record that the write just returned had appended
WrittenCmd ==
    IF lastOp'.op = "set" THEN SetCmd(lastOp'.key, lastOp'.val)
    ELSE RemoveCmd(lastOp'.key)

\* C12: for every successful append of a set or a remove, the first append
\* after open on a non-empty log and the first after a compaction included, the
\* offset returned is the length store.log had before the write, where the
\* first byte of the record went, and the length returned is the number of
\* bytes written, newline included.
C12_AppendReportsTrueLocation ==
    [][(WriteReturned /\ lastOp'.res = "Ok") =>
          LET a == append_command(St, WrittenCmd)
              json == to_vec(WrittenCmd) \o <<NL>>
          IN  /\ a.offset = Len(log)
              /\ a.len = Len(a.s.log) - Len(log)
              /\ SubSeq(a.s.log, a.offset + 1, a.offset + a.len) = json]_vars

\* ---- C13 ----
\* C13: between operations, every key k of the index has a LogPointer whose
\* bytes [offset, offset + len) of store.log are exactly the serialized Set
\* record of the most recent set of k, and the keys of the index are the keys
\* whose last logged operation is a Set.
C13_IndexInvariant ==
    opened =>
        /\ DOMAIN index = DOMAIN truth
        /\ \A k \in DOMAIN index :
             k \in DOMAIN truth
                 => SubSeq(log, index[k].offset + 1,
                           index[k].offset + index[k].len)
                       = to_vec(SetCmd(k, truth[k])) \o <<NL>>

\* ---- C14 ----
\* byte length of the record of the most recent set of k, which the next
\* write of k supersedes
SupersededLen(k) ==
    IF k \in DOMAIN truth THEN Len(to_vec(SetCmd(k, truth[k]))) + 1 ELSE 0

\* C14: a successful write that triggers no compaction leaves uncompacted
\* unchanged when it sets a key not in the index, adds the byte length of the
\* superseded record when it sets a key of the index, and adds the byte length
\* of the superseded record plus that of the tombstone when it removes a key.
C14_StaleByteAccounting ==
    [][(WriteReturned /\ lastOp'.res = "Ok" /\ lastOp'.ran = "no") =>
          LET k == lastOp'.key
          IN  uncompacted' = uncompacted +
                (IF lastOp'.op = "set"
                 THEN (IF k \in DOMAIN index THEN SupersededLen(k) ELSE 0)
                 ELSE SupersededLen(k) + Len(to_vec(RemoveCmd(k))) + 1)]_vars

\* ---- C15 ----
RECURSIVE SumLen(_, _)
\* sum of the len fields of the index entries of the keys in ks
SumLen(idx, ks) ==
    IF ks = {} THEN 0
    ELSE LET k == CHOOSE x \in ks : TRUE
         IN  idx[k].len + SumLen(idx, ks \ {k})

\* the bytes of `file` that pointer ptr addresses
Addressed(file, ptr) == SubSeq(file, ptr.offset + 1, ptr.offset + ptr.len)

\* the pointers of idx lie in `file` and no two of them overlap
Disjoint(file, idx) ==
    /\ \A k \in DOMAIN idx : idx[k].offset + idx[k].len <= Len(file)
    /\ \A k1, k2 \in DOMAIN idx :
         k1 # k2 => \/ idx[k1].offset + idx[k1].len <= idx[k2].offset
                    \/ idx[k2].offset + idx[k2].len <= idx[k1].offset

\* C15: after a successful compaction the new store.log has one record per
\* key of the index, each the copy of the record the key's pointer addressed
\* in the old log, laid out without gaps from offset 0 as the new pointers
\* say; every record is the latest Set of its key (no tombstone, no superseded
\* Set); the size is the sum of the live record lengths, not more than the old
\* log; uncompacted is 0; an empty index gives an empty log.
C15_CompactionResult ==
    [][(WriteReturned /\ lastOp'.ran = "ok") =>
          LET old == BeforeCompact
          IN  /\ DOMAIN index' = DOMAIN old.index
              /\ \A k \in DOMAIN index' :
                   /\ Addressed(log', index'[k])
                        = read_line(old.log, old.index[k].offset).line
                   /\ k \in DOMAIN truth'
                   /\ Addressed(log', index'[k])
                        = to_vec(SetCmd(k, truth'[k])) \o <<NL>>
              /\ Disjoint(log', index')
              /\ Len(log') = SumLen(index', DOMAIN index')
              /\ Len(log') = SumLen(old.index, DOMAIN old.index)
              /\ Len(log') <= Len(old.log)
              /\ uncompacted' = 0
              /\ (old.index = EmptyIndex => log' = <<>>)]_vars

\* ---- C16 ----
\* C16: open sets uncompacted to the total bytes of the log minus the summed
\* lengths of the records that the rebuilt index references, and for a store
\* that is closed the index (keys, offsets and lengths) and the uncompacted
\* value that reopening produces are those the store held in memory at close.
C16_RebuildEqualsRuntime ==
    [][(opened /\ lastOp'.op = "close") =>
          LET r == rebuild_index(log')
          IN  /\ r.ok
              /\ r.uncompacted = Len(log') - SumLen(r.index, DOMAIN r.index)
              /\ r.index = index
              /\ r.uncompacted = uncompacted]_vars

\* ---- C17 ----
\* the offsets of `file` at which a line begins
LineStarts(file) ==
    {o \in 0..(Len(file) - 1) : o = 0 \/ file[o] = NL}

\* the bytes of the line of `file` that begins at offset o
LineAt(file, o) ==
    LET ends == {i \in (o + 1)..Len(file) : file[i] = NL}
    IN  SubSeq(file, o + 1,
               IF ends = {} THEN Len(file)
               ELSE CHOOSE i \in ends : \A j \in ends : i <= j)

\* the record that the line at offset o decodes to, DecodeError if none
RecordAt(file, o) == from_str(trim(LineAt(file, o)))

\* the offsets of the decodable records of `file` that concern key k
RecordsOf(file, k) ==
    {o \in LineStarts(file) :
        RecordAt(file, o).t \in {"Set", "Remove"} /\ RecordAt(file, o).key = k}

\* the index that replaying only the decodable records of `file` gives: a key
\* whose last decodable record is a Set, at the offset of that record
DecodableIndex(file) ==
    LET last(k) == CHOOSE o \in RecordsOf(file, k) :
                       \A p \in RecordsOf(file, k) : p <= o
        live == {k \in AllKeys : /\ RecordsOf(file, k) # {}
                                 /\ RecordAt(file, last(k)).t = "Set"}
    IN  [k \in live |-> LogPointer(last(k), Len(LineAt(file, last(k))))]

\* C17: open does not fail on a log with lines that do not decode; the index
\* it builds is the one of the decodable records alone, each at its true offset
\* in the file, and the bytes of the skipped lines are counted in uncompacted.
C17_CorruptLinesSkipped ==
    [][lastOp'.op = "open" =>
          /\ lastOp'.res = "Ok"
          /\ index' = DecodableIndex(log)
          /\ uncompacted' = Len(log) - SumLen(index', DOMAIN index')]_vars

\* ---- C18 ----
\* C18: when the process stops at any step of a compaction, store.log is
\* either the complete log of before the compaction or the complete compacted
\* log, and opening the store afterwards gives for every key the value that
\* the store had for it when the compaction started.
C18_CompactionCrashSafe ==
    [][/\ lastOp'.op = "crash" => log' \in {lastOp'.old, lastOp'.new}
       /\ (lastOp.op = "crash" /\ lastOp'.op = "open")
             => /\ lastOp'.res = "Ok"
                /\ \A k \in Keys : get(St', k) = lastOp.view[k]]_vars

\* ---- C19 ----
\* C19: set and remove write and flush the record before they update the
\* index and uncompacted, and update both before the compaction check: a call
\* whose append fails leaves the index and uncompacted unchanged and attempts
\* no compaction, and a call that returns Ok leaves no byte of the record in
\* the writer's buffer, the record being in the file when no compaction
\* rewrote it, with the compaction decided on the updated counter.
C19_WriteOrdering ==
    [][WriteReturned =>
          /\ lastOp'.ran = "append" =>
                /\ lastOp'.res = "Io"
                /\ index' = index
                /\ uncompacted' = uncompacted
                /\ tmpExists' = tmpExists
                /\ SubSeq(log', 1, Len(log)) = log
          /\ lastOp'.res = "Ok" =>
                /\ wbuf' = <<>>
                /\ (lastOp'.ran = "ok") = (BeforeCompact.uncompacted > threshold)
                /\ lastOp'.ran = "no" =>
                      /\ index' = BeforeCompact.index
                      /\ uncompacted' = BeforeCompact.uncompacted
                      /\ SubSeq(log', Len(log') - Len(to_vec(WrittenCmd)),
                                Len(log')) = to_vec(WrittenCmd) \o <<NL>>]_vars

\* a write whose flush failed and left bytes in the buffer, on a store that
\* held keys and whose stale bytes were over the threshold
C19_Witness ==
    /\ opened
    /\ lastOp.op \in {"set", "remove"}
    /\ lastOp.ran = "append"
    /\ lastOp.res = "Io"
    /\ wbuf # <<>>
    /\ index # EmptyIndex
    /\ uncompacted > threshold

\* ---- C20 ----
\* byte i of the log (counted from 1) lies in the record of an index entry
Referenced(i) ==
    \E k \in DOMAIN index :
        index[k].offset < i /\ i <= index[k].offset + index[k].len

\* C20: between operations uncompacted is the byte size of store.log minus the
\* sum of the len fields of the index entries; it is never negative, and it is
\* 0 exactly when every byte of the log belongs to a record that the index
\* references.
C20_CounterInvariant ==
    opened =>
        /\ uncompacted = Len(log) - SumLen(index, DOMAIN index)
        /\ uncompacted >= 0
        /\ (uncompacted = 0) = (\A i \in 1..Len(log) : Referenced(i))

\* ---- C21 ----
\* C21: between operations the byte ranges [offset, offset + len) of the
\* LogPointers of distinct keys are pairwise disjoint, each lies within
\* store.log, and no two keys have the same offset.
C21_PointersWellFormed ==
    opened =>
        /\ Disjoint(log, index)
        /\ \A k1, k2 \in DOMAIN index :
             k1 # k2 => index[k1].offset # index[k2].offset

\* ---- C22 ----
\* C22: a successful set(k, v) or remove(k), with the compaction it may
\* trigger, leaves the result of get(k2) as it was for every key k2 other
\* than k.
C22_KeyIsolation ==
    [][(WriteReturned /\ lastOp'.res = "Ok") =>
          \A k2 \in Keys \ {lastOp'.key} : get(St', k2) = get(St, k2)]_vars

====
